---- MODULE Spec2Model ----
(***************************************************************************)
(* AskPdf: a model of the ingestion pipeline (ingest.py), of the lazily    *)
(* built retrieval chain (rag_chain.py), of the file validation helper     *)
(* (error_handler.py) and of the endpoints of main.py that touch the       *)
(* vector store or the chain.                                              *)
(*                                                                         *)
(* Spec       one ingest_pdfs call after the other against one store.      *)
(* SpecChain  callers of ask_question running get_rag_chain concurrently,  *)
(*            interleaved with list and delete requests.                   *)
(* SpecAsk    the callers of ask_question alone.                           *)
(* SpecUpload ingest_pdfs calls against a store and a chain that earlier   *)
(*            requests left.                                               *)
(* SpecStore  list and delete requests alone.                              *)
(* SpecHelpers  the decorators and validators of error_handler.py and the  *)
(*            exception handlers of main.py, each applied to its inputs.   *)
(***************************************************************************)
EXTENDS Integers, Sequences, FiniteSets, TLC

\* ------------------------------------------------------------------ bounds
MaxFiles == 2       \* longest file_paths list handed to ingest_pdfs
MaxChunks == 2      \* most chunks the splitter yields for one file
MaxCalls == 2       \* ingest_pdfs calls in one behaviour
NumCallers == 2     \* callers of ask_question running at the same time
MaxAsks == 3        \* ask_question calls in one behaviour
MaxIds == 2         \* longest list of ids handed to delete_docs

\* validate_file_size(file_size, max_size_mb=50)
DefaultMaxSizeMb == 50

VARIABLES
    \* ---- the vector store shared by the pipeline and the chain
    vectordb,           \* set of records [id, doc_id, source_file, chunk_index]
    next_id,            \* ids the store has handed out so far
    persist_dir_exists, \* os.path.exists(PERSIST_DIR)
    \* ---- one ingest_pdfs call
    pc,                 \* where the call stands
    file_paths,         \* its argument
    missing,            \* the paths of file_paths that os.path.exists denies
    total_chunks,
    processed_files,
    failed_files,
    idx,                \* index of the next file of the processing loop
    result,             \* what the call returned or raised
    \* ---- what the call did, in order (observations, not program state)
    log,                \* calls made on collaborators: [ev, i]
    stamped,            \* doc_id values written to chunk metadata, in order
    store0,             \* vectordb when the call began
    calls,              \* ingest_pdfs calls begun
    prev,               \* the call before this one: its outcome and the ids then
    \* ---- rag_chain.py and the endpoints of main.py
    qa_chain,           \* the module global: None, or the chain instance
    constructions,      \* chain instances RetrievalQA.from_chain_type has built
    tpc,                \* per caller: where its ask_question stands
    tlocal,             \* per caller: the chain get_rag_chain returned to it
    tres,               \* per caller: what its last ask_question answered
    tobs,               \* per caller: the question of its call, and what the
                        \* probe of the construction it is running came to
    asks,               \* ask_question calls begun
    reply,              \* what the last list or delete request answered
    req,                \* that request: its ids, the store it found, and the
                        \* calls it made on the store (an observation)
    \* ---- error_handler.py and the exception handlers of main.py
    applied             \* the helper applied last: its argument and outcome

ingest_vars == <<vectordb, next_id, persist_dir_exists, pc, file_paths, missing,
                 total_chunks, processed_files, failed_files, idx, result,
                 log, stamped, store0, calls, prev>>

chain_vars == <<qa_chain, constructions, tpc, tlocal, tres, tobs, asks, reply,
               req, applied>>

vars == <<ingest_vars, chain_vars>>

\* ------------------------------------------------------------ file names
\* A filename is a sequence of characters; a path is a directory and a name.
Name_x_pdf == <<"x", ".", "p", "d", "f">>
Name_y_PDF == <<"y", ".", "P", "D", "F">>
Name_z_txt == <<"z", ".", "t", "x", "t">>
Name_dotpdf == <<".", "p", "d", "f">>
Name_empty == <<>>

Paths ==
    { [dir |-> "a", name |-> Name_x_pdf],
      [dir |-> "b", name |-> Name_x_pdf],
      [dir |-> "a", name |-> Name_y_PDF],
      [dir |-> "a", name |-> Name_z_txt],
      [dir |-> "a", name |-> Name_dotpdf],
      [dir |-> "a", name |-> Name_empty] }

\* os.path.basename
basename(p) == p.name

\* lower, were the comparison of extensions case-sensitive
lower_identity(s) == s

\* str.lower, on the characters the names use
LowerChar(c) ==
    CASE c = "P" -> "p"
      [] c = "D" -> "d"
      [] c = "F" -> "f"
      [] OTHER -> c

lower(s) == [k \in 1..Len(s) |-> LowerChar(s[k])]

\* os.path.splitext(filename)[1]: from the last dot on, unless only dots
\* precede it (a leading dot starts no extension).
splitext_ext(s) ==
    LET dots == {k \in 1..Len(s) : s[k] = "."}
        dot == IF dots = {} THEN 0 ELSE CHOOSE k \in dots : \A j \in dots : j <= k
    IN  IF dot > 0 /\ \E j \in 1..(dot - 1) : s[j] # "."
        THEN SubSeq(s, dot, Len(s))
        ELSE <<>>

allowed_extensions == { <<".", "p", "d", "f">> }

\* ------------------------------------------------------------ error values
NoDetails == [k \in {} |-> TRUE]
NoCause == [kind |-> "none"]
NoResult == [kind |-> "none"]

\* rag_chain.py: qa_chain = None; a chain instance is the number of its
\* construction
None == 0

\* AskPdfBaseException.__init__: message left out, timestamp left out
Error(cls, code, details, original_error) ==
    [kind |-> "error", cls |-> cls, error_code |-> code, details |-> details,
     original_error |-> original_error]

\* an exception that is no AskPdfBaseException
RawError(what) == [kind |-> "raw", cls |-> what]

Returns(v) == [kind |-> "ok", value |-> v]

\* validate_file_type(filename): True, or the ValidationError it raises
validate_file_type(filename) ==
    IF filename = <<>>
    THEN Error("ValidationError", "VALIDATION_ERROR", NoDetails, NoCause)
    ELSE LET file_extension == lower(splitext_ext(filename))
         IN  IF file_extension \notin allowed_extensions
             THEN Error("ValidationError", "INVALID_FILE_FORMAT",
                        [filename |-> filename, extension |-> file_extension],
                        NoCause)
             ELSE Returns(TRUE)

\* ------------------------------------------------------- ingest_pdfs: parts
\* the outer handlers of ingest_pdfs: an AskPdfBaseException is re-raised as
\* it is, anything else becomes a FileError
ingest_outer_except(e) ==
    IF e.kind = "error"
    THEN e
    ELSE Error("FileError", "PDF_PROCESSING_ERROR", NoDetails, e)

\* validate_paths, were only the path at k validated
validate_paths_first_only(paths, miss, k) ==
    IF k > Len(paths)
    THEN Returns(TRUE)
    ELSE IF paths[k] \in miss
    THEN Error("FileError", "FILE_NOT_FOUND", [file_path |-> paths[k]], NoCause)
    ELSE IF validate_file_type(basename(paths[k])).kind # "ok"
    THEN Error("FileError", "INVALID_FILE_FORMAT", [file_path |-> paths[k]],
               validate_file_type(basename(paths[k])))
    ELSE Returns(TRUE)

\* the validation pass over file_paths from index k on: the error it raises,
\* or Returns(TRUE) when every path passes
RECURSIVE validate_paths(_, _, _)
validate_paths(paths, miss, k) ==
    IF k > Len(paths)
    THEN Returns(TRUE)
    ELSE IF paths[k] \in miss
    THEN Error("FileError", "FILE_NOT_FOUND", [file_path |-> paths[k]], NoCause)
    ELSE IF validate_file_type(basename(paths[k])).kind # "ok"
    THEN Error("FileError", "INVALID_FILE_FORMAT", [file_path |-> paths[k]],
               validate_file_type(basename(paths[k])))
    ELSE validate_paths(paths, miss, k + 1)

\* the doc_id of chunk i of a file: f"{filename}_chunk_{i}"
doc_id_of(filename, i) == <<filename, "_chunk_", i>>

\* the chunks of a file after the metadata loop, n of them
stamp_chunks(filename, n) ==
    [i \in 1..n |-> [doc_id |-> doc_id_of(filename, i - 1),
                     source_file |-> filename,
                     chunk_index |-> i - 1]]

\* an id the store makes up for a record it is given without one
store_id(n) == <<"uuid", n>>

\* vectordb.add_documents(chunks): no ids are passed, so the store gives every
\* record an id of its own; doc_id travels in the metadata
add_documents(db, last_id, chunks) ==
    db \cup { [id |-> store_id(last_id + i),
               doc_id |-> chunks[i].doc_id,
               source_file |-> chunks[i].source_file,
               chunk_index |-> chunks[i].chunk_index] : i \in 1..Len(chunks) }

\* ingest_result, were total_chunks to count files instead of chunks
ingest_result_counts_files(total, processed, failed) ==
    [total_chunks |-> Len(processed),
     processed_files |-> Len(processed),
     failed_files |-> Len(failed)]
    @@ (IF failed # <<>> THEN [failures |-> failed] ELSE NoDetails)
    @@ (IF processed # <<>> THEN [successes |-> processed] ELSE NoDetails)

\* the dict ingest_pdfs returns
ingest_result(total, processed, failed) ==
    [total_chunks |-> total,
     processed_files |-> Len(processed),
     failed_files |-> Len(failed)]
    @@ (IF failed # <<>> THEN [failures |-> failed] ELSE NoDetails)
    @@ (IF processed # <<>> THEN [successes |-> processed] ELSE NoDetails)

Event(ev, i) == [ev |-> ev, i |-> i]

\* ----------------------------------------------------- ingest_pdfs: steps
\* the call ends by raising e
ingest_raise(e) ==
    /\ result' = ingest_outer_except(e)
    /\ pc' = "idle"

\* what no step of a call changes
ingest_frame == UNCHANGED <<file_paths, missing, store0, calls, prev, chain_vars>>

\* ingest_file_failed, were the failure put in front of the list
ingest_file_failed_prepends(msg) ==
    /\ failed_files' = <<[file |-> basename(file_paths[idx]), error |-> msg]>>
                          \o failed_files
    /\ idx' = idx + 1
    /\ pc' = IF idx + 1 > Len(file_paths) THEN "persist" ELSE "loop"
    /\ UNCHANGED <<total_chunks, processed_files, result, vectordb, next_id,
                   persist_dir_exists>>
    /\ ingest_frame

\* ingest_file_failed, were a failure to end the loop (break, not continue)
ingest_file_failed_aborts(msg) ==
    /\ failed_files' = Append(failed_files,
                              [file |-> basename(file_paths[idx]), error |-> msg])
    /\ idx' = idx + 1
    /\ pc' = "persist"
    /\ UNCHANGED <<total_chunks, processed_files, result, vectordb, next_id,
                   persist_dir_exists>>
    /\ ingest_frame

\* a per-file failure: recorded, and the loop goes on
ingest_file_failed(msg) ==
    /\ failed_files' = Append(failed_files,
                              [file |-> basename(file_paths[idx]), error |-> msg])
    /\ idx' = idx + 1
    /\ pc' = IF idx + 1 > Len(file_paths) THEN "persist" ELSE "loop"
    /\ UNCHANGED <<total_chunks, processed_files, result, vectordb, next_id,
                   persist_dir_exists>>
    /\ ingest_frame

PathLists == UNION { [1..n -> Paths] : n \in 0..MaxFiles }

Range(f) == { f[k] : k \in DOMAIN f }

\* what a call sets when it begins
ingest_begin ==
    /\ calls' = calls + 1
    /\ store0' = vectordb
    /\ pc' = "validate"
    /\ result' = NoResult
    /\ total_chunks' = 0
    /\ processed_files' = <<>>
    /\ failed_files' = <<>>
    /\ idx' = 1
    /\ log' = <<>>
    /\ stamped' = <<>>
    /\ UNCHANGED <<vectordb, next_id, persist_dir_exists, chain_vars>>

NoPrev == [result |-> NoResult, ids |-> {}]

\* the first upload: ingest_pdfs(paths); miss are the paths that do not exist
IngestCall ==
    /\ pc = "idle"
    /\ calls = 0
    /\ \E paths \in PathLists : \E miss \in SUBSET Range(paths) :
          /\ file_paths' = paths
          /\ missing' = miss
    /\ prev' = NoPrev
    /\ ingest_begin

\* the same single file is uploaded again: ingest_pdfs(file_paths) once more
Reingest ==
    /\ pc = "idle"
    /\ calls >= 1
    /\ calls < MaxCalls
    /\ Len(file_paths) = 1
    /\ prev' = [result |-> result, ids |-> { r.id : r \in vectordb }]
    /\ UNCHANGED <<file_paths, missing>>
    /\ ingest_begin

\* lines 33-57: the empty list, then every path: existence, then file type
IngestValidate ==
    /\ pc = "validate"
    /\ IF file_paths = <<>>
       THEN ingest_raise(Error("FileError", "VALIDATION_ERROR", NoDetails, NoCause))
       ELSE IF validate_paths(file_paths, missing, 1).kind # "ok"
       THEN ingest_raise(validate_paths(file_paths, missing, 1))
       ELSE pc' = "init_embeddings" /\ UNCHANGED result
    /\ UNCHANGED <<vectordb, next_id, persist_dir_exists, total_chunks,
                   processed_files, failed_files, idx, log, stamped>>
    /\ ingest_frame

\* lines 59-70
IngestInitEmbeddings ==
    /\ pc = "init_embeddings"
    /\ log' = Append(log, Event("init_embeddings", 0))
    /\ \E ok \in BOOLEAN :
          IF ok
          THEN pc' = "init_vectordb" /\ UNCHANGED result
          ELSE ingest_raise(Error("ModelError", "EMBEDDING_ERROR", NoDetails,
                                  RawError("Exception")))
    /\ UNCHANGED <<vectordb, next_id, persist_dir_exists, total_chunks,
                   processed_files, failed_files, idx, stamped>>
    /\ ingest_frame

\* lines 72-87: makedirs, then Chroma(...); either may raise
IngestInitVectordb ==
    /\ pc = "init_vectordb"
    /\ log' = Append(log, Event("init_vectordb", 0))
    /\ \E fail \in {"none", "makedirs", "chroma"} :
          /\ persist_dir_exists' = IF fail = "makedirs" THEN persist_dir_exists
                                   ELSE TRUE
          /\ IF fail = "none"
             THEN pc' = "loop" /\ UNCHANGED result
             ELSE ingest_raise(Error("DatabaseError", "VECTORDB_ERROR",
                                     [persist_dir |-> "chroma_db"],
                                     RawError("Exception")))
    /\ UNCHANGED <<vectordb, next_id, total_chunks, processed_files,
                   failed_files, idx, stamped>>
    /\ ingest_frame

\* lines 94-102: loader.load() raises
IngestLoadFails ==
    /\ pc = "loop"
    /\ log' = Append(log, Event("load", idx))
    /\ ingest_file_failed("PDF loading failed")
    /\ UNCHANGED stamped

\* lines 105-110: no documents came out of the file
IngestEmptyDocs ==
    /\ pc = "loop"
    /\ log' = Append(log, Event("load", idx))
    /\ ingest_file_failed("PDF appears to be empty or corrupted")
    /\ UNCHANGED stamped

\* lines 113-124: the splitter raises
IngestSplitFails ==
    /\ pc = "loop"
    /\ log' = Append(log, Event("load", idx))
    /\ ingest_file_failed("Document splitting failed")
    /\ UNCHANGED stamped

\* lines 127-132: the splitter yields no chunk
IngestNoChunks ==
    /\ pc = "loop"
    /\ log' = Append(log, Event("load", idx))
    /\ ingest_file_failed("No text chunks could be created from PDF")
    /\ UNCHANGED stamped

\* lines 155-160: anything else raised while the file is processed
IngestUnexpected ==
    /\ pc = "loop"
    /\ log' = Append(log, Event("load", idx))
    /\ ingest_file_failed("Unexpected error during processing")
    /\ UNCHANGED stamped

\* IngestUpsertFails, were the file entered in the success list before
\* add_documents is called: a file whose upsert raises is in both lists
IngestUpsertFails_in_both ==
    /\ pc = "loop"
    /\ \E n \in 1..MaxChunks :
          /\ stamped' = stamped \o [i \in 1..n |->
                                   stamp_chunks(basename(file_paths[idx]), n)[i].doc_id]
          /\ processed_files' = Append(processed_files,
                                       [file |-> basename(file_paths[idx]),
                                        chunks |-> n])
    /\ log' = log \o <<Event("load", idx), Event("add_documents", idx)>>
    /\ failed_files' = Append(failed_files,
                              [file |-> basename(file_paths[idx]),
                               error |-> "Failed to add to vector database"])
    /\ idx' = idx + 1
    /\ pc' = IF idx + 1 > Len(file_paths) THEN "persist" ELSE "loop"
    /\ UNCHANGED <<total_chunks, result, vectordb, next_id, persist_dir_exists>>
    /\ ingest_frame

\* lines 134-153, add_documents raises: the chunks are stamped, nothing stored
IngestUpsertFails ==
    /\ pc = "loop"
    /\ \E n \in 1..MaxChunks :
          stamped' = stamped \o [i \in 1..n |->
                                   stamp_chunks(basename(file_paths[idx]), n)[i].doc_id]
    /\ log' = log \o <<Event("load", idx), Event("add_documents", idx)>>
    /\ ingest_file_failed("Failed to add to vector database")

\* lines 134-147: n chunks stamped and stored, the file counted
IngestUpsertOk ==
    /\ pc = "loop"
    /\ \E n \in 1..MaxChunks :
          LET filename == basename(file_paths[idx])
              chunks == stamp_chunks(filename, n)
          IN  /\ stamped' = stamped \o [i \in 1..n |-> chunks[i].doc_id]
              /\ vectordb' = add_documents(vectordb, next_id, chunks)
              /\ next_id' = next_id + Len(chunks)
              /\ total_chunks' = total_chunks + Len(chunks)
              /\ processed_files' = Append(processed_files,
                                           [file |-> filename, chunks |-> Len(chunks)])
    /\ log' = log \o <<Event("load", idx), Event("add_documents", idx)>>
    /\ idx' = idx + 1
    /\ pc' = IF idx + 1 > Len(file_paths) THEN "persist" ELSE "loop"
    /\ UNCHANGED <<failed_files, result, persist_dir_exists>>
    /\ ingest_frame

\* IngestPersist, were a failure of persist logged and passed over
IngestPersist_swallows ==
    /\ pc = "persist"
    /\ \E ok \in BOOLEAN :
          log' = IF ok THEN Append(log, Event("persist", 0))
                 ELSE log \o <<Event("persist", 0), Event("persist_raised", 0)>>
    /\ pc' = "finish"
    /\ UNCHANGED <<vectordb, next_id, persist_dir_exists, total_chunks,
                   processed_files, failed_files, idx, stamped, result>>
    /\ ingest_frame

\* lines 162-170
IngestPersist ==
    /\ pc = "persist"
    /\ \E ok \in BOOLEAN :
          IF ok
          THEN /\ log' = Append(log, Event("persist", 0))
               /\ pc' = "finish"
               /\ UNCHANGED result
          ELSE /\ log' = log \o <<Event("persist", 0), Event("persist_raised", 0)>>
               /\ ingest_raise(Error("DatabaseError", "DB_OPERATION_ERROR",
                                     NoDetails, RawError("Exception")))
    /\ UNCHANGED <<vectordb, next_id, persist_dir_exists, total_chunks,
                   processed_files, failed_files, idx, stamped>>
    /\ ingest_frame

\* the end of ingest_pdfs, were the cached chain dropped after a successful
\* ingestion so that the next question builds one over the new store
IngestFinish_invalidates ==
    /\ pc = "finish"
    /\ IF total_chunks = 0
       THEN /\ ingest_raise(Error("FileError", "PDF_PROCESSING_ERROR",
                                  [failed_files |-> failed_files], NoCause))
            /\ UNCHANGED qa_chain
       ELSE /\ result' = Returns(ingest_result(total_chunks, processed_files,
                                               failed_files))
            /\ pc' = "idle"
            /\ qa_chain' = None
    /\ UNCHANGED <<vectordb, next_id, persist_dir_exists, total_chunks,
                   processed_files, failed_files, idx, log, stamped>>
    /\ UNCHANGED <<file_paths, missing, store0, calls, prev>>
    /\ UNCHANGED <<constructions, tpc, tlocal, tres, tobs, asks, reply, req,
                   applied>>

\* lines 172-193
IngestFinish ==
    /\ pc = "finish"
    /\ IF total_chunks = 0
       THEN ingest_raise(Error("FileError", "PDF_PROCESSING_ERROR",
                               [failed_files |-> failed_files], NoCause))
       ELSE /\ result' = Returns(ingest_result(total_chunks, processed_files,
                                               failed_files))
            /\ pc' = "idle"
    /\ UNCHANGED <<vectordb, next_id, persist_dir_exists, total_chunks,
                   processed_files, failed_files, idx, log, stamped>>
    /\ ingest_frame

IngestNext ==
    \/ IngestCall
    \/ Reingest
    \/ IngestValidate
    \/ IngestInitEmbeddings
    \/ IngestInitVectordb
    \/ IngestLoadFails
    \/ IngestEmptyDocs
    \/ IngestSplitFails
    \/ IngestNoChunks
    \/ IngestUnexpected
    \/ IngestUpsertFails
    \/ IngestUpsertOk
    \/ IngestPersist
    \/ IngestFinish

IngestInit ==
    /\ vectordb = {}
    /\ next_id = 0
    /\ persist_dir_exists = FALSE
    /\ pc = "idle"
    /\ file_paths = <<>>
    /\ missing = {}
    /\ total_chunks = 0
    /\ processed_files = <<>>
    /\ failed_files = <<>>
    /\ idx = 1
    /\ result = NoResult
    /\ log = <<>>
    /\ stamped = <<>>
    /\ store0 = {}
    /\ calls = 0
    /\ prev = NoPrev

\* no helper has been applied
NoCall == [fn |-> "none"]

\* ------------------------------------------------------------ rag_chain.py
Callers == 1..NumCallers

\* str.strip on a sequence of characters
RECURSIVE lstrip(_)
lstrip(q) == IF q # <<>> /\ Head(q) = " " THEN lstrip(Tail(q)) ELSE q

RECURSIVE rstrip(_)
rstrip(q) ==
    IF q # <<>> /\ q[Len(q)] = " " THEN rstrip(SubSeq(q, 1, Len(q) - 1)) ELSE q

strip(q) == rstrip(lstrip(q))

Questions == { <<>>, <<" ">>, <<"q">> }

\* what is known of a caller that has not asked, and of one that asks q
NotAsked == [asked |-> FALSE, question |-> <<>>, probe |-> "none", warned |-> FALSE]

Asked(q) == [asked |-> TRUE, question |-> q, probe |-> "none", warned |-> FALSE]

\* get_vectordb(): the store handle, or the error it raises
get_vectordb(dir_exists) ==
    { Error("ModelError", "EMBEDDING_ERROR", NoDetails, RawError("Exception")) }
    \cup (IF dir_exists
          THEN { Returns(TRUE),
                 Error("DatabaseError", "VECTORDB_ERROR",
                       [persist_dir |-> "chroma_db"], RawError("Exception")) }
          ELSE { Error("DatabaseError", "DB_CONNECTION_ERROR",
                       [persist_dir |-> "chroma_db"], NoCause) })

chain_frame == UNCHANGED <<ingest_vars, reply, req, applied>>

\* ask_question of caller t ends with r
ask_ends(t, r) ==
    /\ tres' = [tres EXCEPT ![t] = r]
    /\ tpc' = [tpc EXCEPT ![t] = "idle"]
    /\ tobs' = [tobs EXCEPT ![t].probe = "none", ![t].warned = FALSE]

\* ask_question without the strip of main.py 106: only the empty question is
\* turned away
AskCall_no_strip(t) ==
    /\ tpc[t] = "idle"
    /\ asks < MaxAsks
    /\ asks' = asks + 1
    /\ tlocal' = [tlocal EXCEPT ![t] = None]
    /\ \E q \in Questions :
          /\ tobs' = [tobs EXCEPT ![t] = Asked(q)]
          /\ IF q = <<>>
             THEN /\ tres' = [tres EXCEPT ![t] =
                                Error("ValidationError", "VALIDATION_ERROR",
                                      NoDetails, NoCause)]
                  /\ UNCHANGED tpc
             ELSE /\ tpc' = [tpc EXCEPT ![t] = "check"]
                  /\ tres' = [tres EXCEPT ![t] = NoResult]
    /\ UNCHANGED <<qa_chain, constructions>>
    /\ chain_frame

\* main.py 104-113: the question is validated, then get_rag_chain is entered
AskCall(t) ==
    /\ tpc[t] = "idle"
    /\ asks < MaxAsks
    /\ asks' = asks + 1
    /\ tlocal' = [tlocal EXCEPT ![t] = None]
    /\ \E q \in Questions :
          /\ tobs' = [tobs EXCEPT ![t] = Asked(q)]
          /\ IF q = <<>> \/ strip(q) = <<>>
             THEN /\ tres' = [tres EXCEPT ![t] =
                                Error("ValidationError", "VALIDATION_ERROR",
                                      NoDetails, NoCause)]
                  /\ UNCHANGED tpc
             ELSE /\ tpc' = [tpc EXCEPT ![t] = "check"]
                  /\ tres' = [tres EXCEPT ![t] = NoResult]
    /\ UNCHANGED <<qa_chain, constructions>>
    /\ chain_frame

\* rag_chain.py 105: if qa_chain is None
ChainCheck(t) ==
    /\ tpc[t] = "check"
    /\ tpc' = [tpc EXCEPT ![t] = IF qa_chain = None THEN "get_vectordb" ELSE "return"]
    /\ UNCHANGED <<qa_chain, constructions, tlocal, tres, tobs, asks>>
    /\ chain_frame

\* rag_chain.py 108: vectordb = get_vectordb()
ChainGetVectordb(t) ==
    /\ tpc[t] = "get_vectordb"
    /\ \E r \in get_vectordb(persist_dir_exists) :
          IF r.kind = "ok"
          THEN tpc' = [tpc EXCEPT ![t] = "probe"] /\ UNCHANGED <<tres, tobs>>
          ELSE ask_ends(t, r)
    /\ UNCHANGED <<qa_chain, constructions, tlocal, asks>>
    /\ chain_frame

\* rag_chain.py 112: vectordb.get(limit=1) raises, or returns what it found
probe(db) == { "raised", IF db = {} THEN "empty" ELSE "found" }

\* rag_chain.py 110-123: the probe. The DatabaseError raised at line 115 for
\* an empty store is raised inside the try of line 111, so the except of line
\* 120 catches it as it catches a failure of the probe: a warning is logged
\* and construction goes on.
ChainProbe(t) ==
    /\ tpc[t] = "probe"
    /\ \E found \in probe(vectordb) :
          tobs' = [tobs EXCEPT ![t].probe = found,
                               ![t].warned = (found \in {"raised", "empty"})]
    /\ tpc' = [tpc EXCEPT ![t] = "init_llm"]
    /\ UNCHANGED <<qa_chain, constructions, tlocal, tres, asks>>
    /\ chain_frame

\* rag_chain.py 125-133
ChainInitLLM(t) ==
    /\ tpc[t] = "init_llm"
    /\ \E ok \in BOOLEAN :
          IF ok
          THEN tpc' = [tpc EXCEPT ![t] = "retriever"] /\ UNCHANGED <<tres, tobs>>
          ELSE ask_ends(t, Error("ModelError", "LLM_ERROR", NoDetails,
                                 RawError("Exception")))
    /\ UNCHANGED <<qa_chain, constructions, tlocal, asks>>
    /\ chain_frame

\* rag_chain.py 135-143
ChainRetriever(t) ==
    /\ tpc[t] = "retriever"
    /\ \E ok \in BOOLEAN :
          IF ok
          THEN tpc' = [tpc EXCEPT ![t] = "build"] /\ UNCHANGED <<tres, tobs>>
          ELSE ask_ends(t, Error("DatabaseError", "RETRIEVAL_ERROR", NoDetails,
                                 RawError("Exception")))
    /\ UNCHANGED <<qa_chain, constructions, tlocal, asks>>
    /\ chain_frame

\* the last step of construction, were a failure of RetrievalQA swallowed as
\* the probe's is: nothing is raised and qa_chain is returned as it stands
ChainBuild_swallows(t) ==
    /\ tpc[t] = "build"
    /\ \E ok \in BOOLEAN :
          IF ok
          THEN /\ constructions' = constructions + 1
               /\ qa_chain' = constructions + 1
               /\ tpc' = [tpc EXCEPT ![t] = "return"]
               /\ UNCHANGED <<tres, tobs>>
          ELSE /\ tpc' = [tpc EXCEPT ![t] = "return"]
               /\ UNCHANGED <<tres, tobs>>
               /\ UNCHANGED <<qa_chain, constructions>>
    /\ UNCHANGED <<tlocal, asks>>
    /\ chain_frame

\* rag_chain.py 145-159: the chain is built, then bound to the global
ChainBuild(t) ==
    /\ tpc[t] = "build"
    /\ \E ok \in BOOLEAN :
          IF ok
          THEN /\ constructions' = constructions + 1
               /\ qa_chain' = constructions + 1
               /\ tpc' = [tpc EXCEPT ![t] = "return"]
               /\ UNCHANGED <<tres, tobs>>
          ELSE /\ ask_ends(t, Error("ModelError", "CHAIN_ERROR", NoDetails,
                                    RawError("Exception")))
               /\ UNCHANGED <<qa_chain, constructions>>
    /\ UNCHANGED <<tlocal, asks>>
    /\ chain_frame

\* rag_chain.py 172 and main.py 113-118: the global is read and returned
ChainReturn(t) ==
    /\ tpc[t] = "return"
    /\ tlocal' = [tlocal EXCEPT ![t] = qa_chain]
    /\ IF qa_chain = None
       THEN ask_ends(t, Error("ModelError", "CHAIN_ERROR", NoDetails, NoCause))
       ELSE tpc' = [tpc EXCEPT ![t] = "invoke"] /\ UNCHANGED <<tres, tobs>>
    /\ UNCHANGED <<qa_chain, constructions, asks>>
    /\ chain_frame

\* main.py 120-144: the chain is invoked and its answer returned
AskInvoke(t) ==
    /\ tpc[t] = "invoke"
    /\ \E out \in {"raises", "no_result", "answer"} :
          ask_ends(t, CASE out = "raises" ->
                            Error("QueryError", "QUERY_ERROR", [question |-> <<"q">>],
                                  RawError("Exception"))
                        [] out = "no_result" ->
                            Error("QueryError", "QUERY_ERROR", [question |-> <<"q">>],
                                  NoCause)
                        [] out = "answer" -> Returns(tlocal[t]))
    /\ UNCHANGED <<qa_chain, constructions, tlocal, asks>>
    /\ chain_frame

\* ------------------------------------------------- main.py: list and delete
store_frame == UNCHANGED <<next_id, persist_dir_exists, pc, file_paths, missing,
                           total_chunks, processed_files, failed_files, idx,
                           result, log, stamped, store0, calls, prev,
                           qa_chain, constructions, tpc, tlocal, tres, tobs,
                           asks, applied>>

StoreIds == { r.id : r \in vectordb }

\* a list or delete request: the ids it carries, the store it finds and the
\* methods of the store it calls, in order
Request(op, ids, store_calls) ==
    [op |-> op, ids |-> ids, before |-> vectordb, store_calls |-> store_calls]

NoRequest == [op |-> "none"]

\* the last handler of list_docs, delete_docs and delete_all_docs: a call on
\* the store that raises becomes a DatabaseError; the store is as it was
store_raised(details) ==
    Error("DatabaseError", "DB_OPERATION_ERROR", details, RawError("Exception"))

\* main.py 149-179
ListDocs ==
    /\ \E r \in get_vectordb(persist_dir_exists) :
          IF r.kind # "ok"
          THEN /\ reply' = r
               /\ req' = Request("list_docs", <<>>, <<>>)
          ELSE /\ req' = Request("list_docs", <<>>, <<"get">>)
               /\ \E got \in {"raises", "returns"} :
                     reply' = IF got = "raises"
                              THEN store_raised(NoDetails)
                              ELSE Returns([ids |-> StoreIds,
                                            count |-> Cardinality(StoreIds)])
    /\ UNCHANGED vectordb
    /\ store_frame

\* the id lists a delete request may carry: ids of the store, and one that
\* the store never handed out
IdLists == UNION { [1..n -> StoreIds \cup {store_id(0)}] : n \in 0..MaxIds }

\* delete_docs, were the ids the store holds deleted although others of the
\* request are unknown to it
DeleteDocs_partial ==
    /\ \E ids \in IdLists :
          IF ids = <<>>
          THEN /\ reply' = Error("ValidationError", "VALIDATION_ERROR", NoDetails,
                                 NoCause)
               /\ req' = Request("delete_docs", ids, <<>>)
               /\ UNCHANGED vectordb
          ELSE \E r \in get_vectordb(persist_dir_exists) :
                  IF r.kind # "ok"
                  THEN /\ reply' = r
                       /\ req' = Request("delete_docs", ids, <<>>)
                       /\ UNCHANGED vectordb
                  ELSE \E got \in {"raises", "returns"} :
                       IF got = "raises"
                       THEN /\ reply' = store_raised([requested_ids |-> ids])
                            /\ req' = Request("delete_docs", ids, <<"get">>)
                            /\ UNCHANGED vectordb
                       ELSE LET invalid_ids ==
                                    SelectSeq(ids, LAMBDA i : i \notin StoreIds)
                            IN  /\ vectordb' =
                                      { x \in vectordb : x.id \notin Range(ids) }
                                /\ req' = Request("delete_docs", ids,
                                                  <<"get", "delete">>)
                                /\ reply' =
                                      IF invalid_ids # <<>>
                                      THEN Error("ValidationError",
                                                 "DOCUMENT_NOT_FOUND",
                                                 [invalid_ids |-> invalid_ids],
                                                 NoCause)
                                      ELSE Returns([deleted_ids |-> ids])
    /\ store_frame

\* main.py 184-226
DeleteDocs ==
    /\ \E ids \in IdLists :
          IF ids = <<>>
          THEN /\ reply' = Error("ValidationError", "VALIDATION_ERROR", NoDetails,
                                 NoCause)
               /\ req' = Request("delete_docs", ids, <<>>)
               /\ UNCHANGED vectordb
          ELSE \E r \in get_vectordb(persist_dir_exists) :
                  IF r.kind # "ok"
                  THEN /\ reply' = r
                       /\ req' = Request("delete_docs", ids, <<>>)
                       /\ UNCHANGED vectordb
                  ELSE \E got \in {"raises", "returns"} :
                       IF got = "raises"
                       THEN /\ reply' = store_raised([requested_ids |-> ids])
                            /\ req' = Request("delete_docs", ids, <<"get">>)
                            /\ UNCHANGED vectordb
                       ELSE LET invalid_ids ==
                                    SelectSeq(ids, LAMBDA i : i \notin StoreIds)
                            IN  IF invalid_ids # <<>>
                                THEN /\ reply' = Error("ValidationError",
                                                       "DOCUMENT_NOT_FOUND",
                                                       [invalid_ids |-> invalid_ids],
                                                       NoCause)
                                     /\ req' = Request("delete_docs", ids, <<"get">>)
                                     /\ UNCHANGED vectordb
                                ELSE /\ req' = Request("delete_docs", ids,
                                                       <<"get", "delete">>)
                                     /\ \/ /\ vectordb' = { x \in vectordb :
                                                               x.id \notin Range(ids) }
                                           /\ reply' = Returns([deleted_ids |-> ids])
                                        \/ /\ UNCHANGED vectordb
                                           /\ reply' = store_raised(
                                                  [requested_ids |-> ids])
    /\ store_frame

\* delete_all_docs without the test of main.py 245: delete is called with
\* whatever ids the store holds, none included
DeleteAll_always_deletes ==
    /\ \E r \in get_vectordb(persist_dir_exists) :
          IF r.kind # "ok"
          THEN /\ reply' = r
               /\ req' = Request("delete_all_docs", <<>>, <<>>)
               /\ UNCHANGED vectordb
          ELSE \E got \in {"raises", "returns"} :
               IF got = "raises"
               THEN /\ reply' = store_raised(NoDetails)
                    /\ req' = Request("delete_all_docs", <<>>, <<"get">>)
                    /\ UNCHANGED vectordb
               ELSE /\ req' = Request("delete_all_docs", <<>>, <<"get", "delete">>)
                    /\ \/ /\ vectordb' = {}
                          /\ reply' = Returns([count |-> Cardinality(StoreIds)])
                       \/ /\ UNCHANGED vectordb
                          /\ reply' = store_raised(NoDetails)
    /\ store_frame

\* main.py 231-263
DeleteAll ==
    /\ \E r \in get_vectordb(persist_dir_exists) :
          IF r.kind # "ok"
          THEN /\ reply' = r
               /\ req' = Request("delete_all_docs", <<>>, <<>>)
               /\ UNCHANGED vectordb
          ELSE \E got \in {"raises", "returns"} :
               IF got = "raises"
               THEN /\ reply' = store_raised(NoDetails)
                    /\ req' = Request("delete_all_docs", <<>>, <<"get">>)
                    /\ UNCHANGED vectordb
               ELSE IF StoreIds # {}
                    THEN /\ req' = Request("delete_all_docs", <<>>,
                                           <<"get", "delete">>)
                         /\ \/ /\ vectordb' = { x \in vectordb :
                                                   x.id \notin StoreIds }
                               /\ reply' = Returns(
                                      [count |-> Cardinality(StoreIds)])
                            \/ /\ UNCHANGED vectordb
                               /\ reply' = store_raised(NoDetails)
                    ELSE /\ req' = Request("delete_all_docs", <<>>, <<"get">>)
                         /\ reply' = Returns([count |-> Cardinality(StoreIds)])
                         /\ UNCHANGED vectordb
    /\ store_frame

\* the steps of the callers of ask_question
AskNext ==
    \E t \in Callers :
        \/ AskCall(t)
        \/ ChainCheck(t)
        \/ ChainGetVectordb(t)
        \/ ChainProbe(t)
        \/ ChainInitLLM(t)
        \/ ChainRetriever(t)
        \/ ChainBuild(t)
        \/ ChainReturn(t)
        \/ AskInvoke(t)

\* the list and delete requests
StoreNext ==
    \/ ListDocs
    \/ DeleteDocs
    \/ DeleteAll

ChainNext ==
    \/ AskNext
    \/ StoreNext

\* the process has started: no chain yet, no request made
ChainInit ==
    /\ qa_chain = None
    /\ constructions = 0
    /\ tpc = [t \in Callers |-> "idle"]
    /\ tlocal = [t \in Callers |-> None]
    /\ tres = [t \in Callers |-> NoResult]
    /\ tobs = [t \in Callers |-> NotAsked]
    /\ asks = 0
    /\ reply = NoResult
    /\ req = NoRequest
    /\ applied = NoCall

\* ------------------------------------- error_handler.py, main.py: helpers
\* class ErrorCode
ErrorCodes ==
    { "FILE_NOT_FOUND", "FILE_UPLOAD_ERROR", "PDF_PROCESSING_ERROR",
      "INVALID_FILE_FORMAT", "FILE_SIZE_EXCEEDED",
      "DB_CONNECTION_ERROR", "DB_OPERATION_ERROR", "VECTORDB_ERROR",
      "DOCUMENT_NOT_FOUND",
      "MODEL_INITIALIZATION_ERROR", "EMBEDDING_ERROR", "LLM_ERROR",
      "API_KEY_ERROR", "RATE_LIMIT_ERROR",
      "QUERY_ERROR", "CHAIN_ERROR", "RETRIEVAL_ERROR",
      "VALIDATION_ERROR", "CONFIGURATION_ERROR", "INTERNAL_SERVER_ERROR",
      "UNKNOWN_ERROR" }

\* AskPdfBaseException and its subclasses
ErrorClasses ==
    { "AskPdfBaseException", "FileError", "DatabaseError", "ModelError",
      "QueryError", "ValidationError", "ConfigurationError" }

TypedErrors ==
    { Error(cls, code, NoDetails, NoCause) : cls \in ErrorClasses, code \in ErrorCodes }

\* the builtin exceptions the except clauses of handle_error name, with
\* others beside, under and above them: each class and its base class
ExceptionBase ==
    [ FileNotFoundError |-> "OSError", PermissionError |-> "OSError",
      IsADirectoryError |-> "OSError", ConnectionError |-> "OSError",
      ConnectionRefusedError |-> "ConnectionError", OSError |-> "Exception",
      ValueError |-> "Exception", UnicodeDecodeError |-> "ValueError",
      KeyError |-> "Exception", TypeError |-> "Exception",
      Exception |-> "BaseException" ]

\* what 'except base' matches
RECURSIVE isinstance(_, _)
isinstance(cls, base) ==
    \/ cls = base
    \/ cls \in DOMAIN ExceptionBase /\ isinstance(ExceptionBase[cls], base)

\* how a call of the function under the decorator may end
FuncOutcomes ==
    { Returns(TRUE) } \cup TypedErrors \cup { RawError(c) : c \in DOMAIN ExceptionBase }

\* error_handler.py 125-167: how a call of handle_error(func) ends when func
\* ends with f
handle_error(f) ==
    IF f.kind # "raw"
    THEN f
    ELSE IF isinstance(f.cls, "FileNotFoundError")
    THEN Error("FileError", "FILE_NOT_FOUND", NoDetails, f)
    ELSE IF isinstance(f.cls, "PermissionError")
    THEN Error("FileError", "FILE_UPLOAD_ERROR", NoDetails, f)
    ELSE IF isinstance(f.cls, "ValueError")
    THEN Error("ValidationError", "VALIDATION_ERROR", NoDetails, f)
    ELSE IF isinstance(f.cls, "ConnectionError")
    THEN Error("DatabaseError", "DB_CONNECTION_ERROR", NoDetails, f)
    ELSE IF isinstance(f.cls, "Exception")
    THEN Error("AskPdfBaseException", "UNKNOWN_ERROR", NoDetails, f)
    ELSE f

\* error_handler.py 174-210: the wrapper defined inside handle_async_error
handle_async_error_wrapper(f) ==
    IF f.kind # "raw"
    THEN f
    ELSE IF isinstance(f.cls, "FileNotFoundError")
    THEN Error("FileError", "FILE_NOT_FOUND", NoDetails, f)
    ELSE IF isinstance(f.cls, "PermissionError")
    THEN Error("FileError", "FILE_UPLOAD_ERROR", NoDetails, f)
    ELSE IF isinstance(f.cls, "ValueError")
    THEN Error("ValidationError", "VALIDATION_ERROR", NoDetails, f)
    ELSE IF isinstance(f.cls, "ConnectionError")
    THEN Error("DatabaseError", "DB_CONNECTION_ERROR", NoDetails, f)
    ELSE IF isinstance(f.cls, "Exception")
    THEN Error("AskPdfBaseException", "UNKNOWN_ERROR", NoDetails, f)
    ELSE f

\* error_handler.py 170-212: handle_async_error is itself declared 'async
\* def', so handle_async_error(func) is a coroutine object. Used as a
\* decorator it binds that object to the function's name, and calling the
\* name raises TypeError before func runs; only a caller that awaits
\* handle_async_error(func) gets the wrapper.
handle_async_error(f, usage) ==
    IF usage = "decorator"
    THEN RawError("TypeError")
    ELSE handle_async_error_wrapper(f)

\* main.py 22-40: the response of the exception handlers: the first for an
\* AskPdfBaseException, the second for anything else
exception_handler(exc) ==
    IF exc.kind = "error"
    THEN [status_code |-> IF exc.error_code # "INTERNAL_SERVER_ERROR"
                          THEN 400 ELSE 500,
          error_code |-> exc.error_code]
    ELSE [status_code |-> 500, error_code |-> "INTERNAL_SERVER_ERROR"]

\* validate_file_size, were a file of exactly the limit turned away
validate_file_size_strict(file_size, max_size_mb) ==
    LET max_size_bytes == max_size_mb * 1024 * 1024
    IN  IF file_size >= max_size_bytes
        THEN Error("ValidationError", "FILE_SIZE_EXCEEDED",
                   [file_size_mb |-> <<file_size, 1024 * 1024>>,
                    max_size_mb |-> max_size_mb], NoCause)
        ELSE Returns(TRUE)

\* error_handler.py 263-286; file_size_mb is the quotient of the two numbers
validate_file_size(file_size, max_size_mb) ==
    LET max_size_bytes == max_size_mb * 1024 * 1024
    IN  IF file_size > max_size_bytes
        THEN Error("ValidationError", "FILE_SIZE_EXCEEDED",
                   [file_size_mb |-> <<file_size, 1024 * 1024>>,
                    max_size_mb |-> max_size_mb], NoCause)
        ELSE Returns(TRUE)

\* the limits tried, and for each the sizes around it and those of
\* test_error_handling.py
MaxSizes == { 1, DefaultMaxSizeMb }

FileSizes(max_size_mb) ==
    { 0, 1, max_size_mb * 1024 * 1024 - 1, max_size_mb * 1024 * 1024,
      max_size_mb * 1024 * 1024 + 1, 10 * 1024 * 1024, 100 * 1024 * 1024 }

helper_frame == UNCHANGED <<ingest_vars, qa_chain, constructions, tpc, tlocal,
                            tres, tobs, asks, reply, req>>

ApplyHandleError ==
    /\ \E f \in FuncOutcomes :
          applied' = [fn |-> "handle_error", arg |-> f, out |-> handle_error(f)]
    /\ helper_frame

ApplyHandleAsyncError ==
    /\ \E f \in FuncOutcomes, usage \in {"decorator", "awaited"} :
          applied' = [fn |-> "handle_async_error", arg |-> f, usage |-> usage,
                      out |-> handle_async_error(f, usage)]
    /\ helper_frame

ApplyExceptionHandler ==
    /\ \E exc \in FuncOutcomes \ { Returns(TRUE) } :
          applied' = [fn |-> "exception_handler", arg |-> exc,
                      out |-> exception_handler(exc)]
    /\ helper_frame

ApplyValidateFileSize ==
    /\ \E max_size_mb \in MaxSizes :
          \E file_size \in FileSizes(max_size_mb) :
             applied' = [fn |-> "validate_file_size",
                         arg |-> [file_size |-> file_size,
                                  max_size_mb |-> max_size_mb],
                         out |-> validate_file_size(file_size, max_size_mb)]
    /\ helper_frame

HelperNext ==
    \/ ApplyHandleError
    \/ ApplyHandleAsyncError
    \/ ApplyExceptionHandler
    \/ ApplyValidateFileSize

\* ------------------------------------------------------- the specifications
Init == IngestInit /\ ChainInit

Next == IngestNext

Spec == Init /\ [][Next]_vars

\* the store as earlier uploads left it when the callers of SpecChain arrive:
\* none yet, one whose files all failed, or one of a file of two chunks
UploadedStores ==
    { [dir |-> FALSE, db |-> {}, last |-> 0],
      [dir |-> TRUE, db |-> {}, last |-> 0],
      [dir |-> TRUE, db |-> add_documents({}, 0, stamp_chunks(Name_x_pdf, 2)),
       last |-> 2] }

InitChain ==
    /\ ChainInit
    /\ \E u \in UploadedStores :
          /\ vectordb = u.db
          /\ next_id = u.last
          /\ persist_dir_exists = u.dir
          /\ store0 = u.db
    /\ pc = "idle"
    /\ file_paths = <<>>
    /\ missing = {}
    /\ total_chunks = 0
    /\ processed_files = <<>>
    /\ failed_files = <<>>
    /\ idx = 1
    /\ result = NoResult
    /\ log = <<>>
    /\ stamped = <<>>
    /\ calls = 0
    /\ prev = NoPrev

NextChain == ChainNext

\* the chain as the questions asked before an upload left it: never built,
\* or built once
CachedChains ==
    { [qa_chain |-> None, constructions |-> 0],
      [qa_chain |-> 1, constructions |-> 1] }

\* an upload arrives: at the store earlier uploads left, with the chain
\* earlier questions left; a chain was only ever built over a store whose
\* directory existed
InitUpload ==
    /\ \E u \in UploadedStores, c \in CachedChains :
          /\ c.qa_chain # None => u.dir
          /\ vectordb = u.db
          /\ next_id = u.last
          /\ persist_dir_exists = u.dir
          /\ store0 = u.db
          /\ qa_chain = c.qa_chain
          /\ constructions = c.constructions
    /\ pc = "idle"
    /\ file_paths = <<>>
    /\ missing = {}
    /\ total_chunks = 0
    /\ processed_files = <<>>
    /\ failed_files = <<>>
    /\ idx = 1
    /\ result = NoResult
    /\ log = <<>>
    /\ stamped = <<>>
    /\ calls = 0
    /\ prev = NoPrev
    /\ tpc = [t \in Callers |-> "idle"]
    /\ tlocal = [t \in Callers |-> None]
    /\ tres = [t \in Callers |-> NoResult]
    /\ tobs = [t \in Callers |-> NotAsked]
    /\ asks = 0
    /\ reply = NoResult
    /\ req = NoRequest
    /\ applied = NoCall

SpecChain == InitChain /\ [][NextChain]_vars

\* the callers of ask_question alone, the store staying as the uploads left it
SpecAsk == InitChain /\ [][AskNext]_vars

\* ingest_pdfs calls arriving with the chain built or not
SpecUpload == InitUpload /\ [][IngestNext]_vars

\* list and delete requests alone
SpecStore == InitChain /\ [][StoreNext]_vars

\* the helpers of error_handler.py and the exception handlers of main.py,
\* applied to one argument after the other
SpecHelpers == Init /\ [][HelperNext]_vars

\* ---------------------------------------------------------------- claims
\* ingest_pdfs has returned or raised
Done == pc = "idle" /\ calls >= 1

RECURSIVE SumChunks(_)
SumChunks(entries) ==
    IF entries = <<>> THEN 0 ELSE Head(entries).chunks + SumChunks(Tail(entries))

\* the indices of the files handed to the loader, in the order of the calls
Loads == LET sel == SelectSeq(log, LAMBDA e : e.ev = "load")
         IN  [k \in 1..Len(sel) |-> sel[k].i]

EventCount(ev) == Cardinality({k \in 1..Len(log) : log[k].ev = ev})

PersistRaised == EventCount("persist_raised") > 0

\* C1 as stated: whenever a file of the batch was upserted, the call returns
\* a success whose total_chunks is the sum over the success entries, the
\* failures listed beside them.
C1_AnySuccessReturns ==
    (Done /\ processed_files # <<>>) =>
        /\ result.kind = "ok"
        /\ result.value.total_chunks = SumChunks(processed_files)

\* C1 amended: a batch with an upserted file whose final persist does not
\* raise returns a success: total_chunks is the sum of the success entries'
\* chunk counts, the successes and the failures are listed as recorded, and
\* the store holds that many records more; when that persist raises, the
\* call raises DB_OPERATION_ERROR instead.
C1_PartialSuccessKept ==
    /\ (Done /\ processed_files # <<>> /\ PersistRaised) =>
        /\ result.kind = "error"
        /\ result.error_code = "DB_OPERATION_ERROR"
    /\ (Done /\ processed_files # <<>> /\ ~PersistRaised) =>
        /\ result.kind = "ok"
        /\ result.value.total_chunks = SumChunks(processed_files)
        /\ result.value.successes = processed_files
        /\ result.value.processed_files = Len(processed_files)
        /\ result.value.failed_files = Len(failed_files)
        /\ (failed_files # <<>>) = ("failures" \in DOMAIN result.value)
        /\ failed_files # <<>> => result.value.failures = failed_files
        /\ Cardinality(vectordb) = Cardinality(store0) + result.value.total_chunks

C1_Witness ==
    /\ Done
    /\ result.kind = "ok"
    /\ Len(processed_files) = 1
    /\ Len(failed_files) = 1
    /\ result.value.total_chunks = MaxChunks

\* the processing loop ran to its end
LoopDone == EventCount("persist") > 0

\* C2 as stated: a batch whose files all fail ends in PDF_PROCESSING_ERROR.
C2_AllFailRaisesProcessingError ==
    (Done /\ LoopDone /\ processed_files = <<>>) =>
        /\ result.kind = "error"
        /\ result.error_code = "PDF_PROCESSING_ERROR"

\* C2 amended: a non-empty validated batch whose files all fail, and whose
\* final persist does not raise, ends in a FileError PDF_PROCESSING_ERROR:
\* nothing was added, and details.failed_files has one entry per input file,
\* in input order; when that persist raises, the call raises
\* DB_OPERATION_ERROR, without the list.
C2_AllFailOneEntryPerFile ==
    /\ (Done /\ LoopDone /\ processed_files = <<>> /\ PersistRaised) =>
        /\ result.kind = "error"
        /\ result.error_code = "DB_OPERATION_ERROR"
        /\ "failed_files" \notin DOMAIN result.details
    /\ (Done /\ LoopDone /\ processed_files = <<>> /\ ~PersistRaised) =>
        /\ result.kind = "error"
        /\ result.cls = "FileError"
        /\ result.error_code = "PDF_PROCESSING_ERROR"
        /\ total_chunks = 0
        /\ vectordb = store0
        /\ Len(result.details.failed_files) = Len(file_paths)
        /\ \A k \in 1..Len(file_paths) :
              result.details.failed_files[k].file = basename(file_paths[k])

C2_Witness ==
    /\ Done
    /\ result.kind = "error"
    /\ result.error_code = "PDF_PROCESSING_ERROR"
    /\ Len(file_paths) = 2
    /\ basename(file_paths[1]) # basename(file_paths[2])
    /\ Len(result.details.failed_files) = 2
    /\ result.details.failed_files[1].error = "PDF loading failed"
    /\ result.details.failed_files[2].error = "Failed to add to vector database"

\* some path of the batch is missing or is of a type that is not allowed
InvalidBatch ==
    \E k \in 1..Len(file_paths) :
        \/ file_paths[k] \in missing
        \/ validate_file_type(basename(file_paths[k])).kind # "ok"

\* C3: a batch with a missing or wrongly typed path is rejected by the
\* validation pass with FILE_NOT_FOUND or INVALID_FILE_FORMAT: the call never
\* gets past validation, no collaborator is called (embeddings, store, loader,
\* add_documents, persist), no chunk is stamped and the store is unchanged.
C3_ValidationFailFast ==
    InvalidBatch =>
        /\ pc \in {"validate", "idle"}
        /\ log = <<>>
        /\ stamped = <<>>
        /\ vectordb = store0
        /\ Done => /\ result.kind = "error"
                   /\ result.cls = "FileError"
                   /\ result.error_code \in {"FILE_NOT_FOUND", "INVALID_FILE_FORMAT"}

C3_Witness ==
    /\ Done
    /\ Len(file_paths) = 2
    /\ file_paths[1] \notin missing
    /\ validate_file_type(basename(file_paths[1])).kind = "ok"
    /\ validate_file_type(basename(file_paths[2])).kind # "ok"
    /\ result.kind = "error"
    /\ log = <<>>

\* the paths whose filename extension is not allowed
BadType(k) == validate_file_type(basename(file_paths[k])).kind # "ok"

FirstBadType == CHOOSE k \in 1..Len(file_paths) :
                    BadType(k) /\ \A j \in 1..(k - 1) : ~BadType(j)

AllowedNames == {Name_x_pdf, Name_y_PDF}

C5_EveryFileOnceInOrder ==
    /\ Loads = [k \in 1..Len(Loads) |-> k]
    /\ Len(Loads) <= Len(file_paths)
    /\ Len(processed_files) + Len(failed_files) = Len(Loads)
    /\ pc = "loop" => Len(Loads) = idx - 1 /\ idx <= Len(file_paths)
    /\ (pc \in {"persist", "finish"} \/ LoopDone) => Len(Loads) = Len(file_paths)
    /\ (pc = "idle" /\ Len(Loads) >= 1) => Len(Loads) = Len(file_paths)

C5_Witness ==
    /\ Done
    /\ Len(file_paths) = 2
    /\ Loads = <<1, 2>>
    /\ Len(failed_files) = 1
    /\ failed_files[1].file = basename(file_paths[1])
    /\ Len(processed_files) = 1
    /\ processed_files[1].file = basename(file_paths[2])
    /\ basename(file_paths[1]) # basename(file_paths[2])

\* C6: persist is called at most once in a call, only after every file has
\* been attempted and after every load and add_documents; a call that got
\* past initialization does not end without it; and when it raises, the call
\* raises DatabaseError DB_OPERATION_ERROR, whatever was upserted.
C6_PersistOnceAtEnd ==
    /\ EventCount("persist") <= 1
    /\ \A k \in 1..Len(log) :
          log[k].ev = "persist" =>
              /\ Len(Loads) = Len(file_paths)
              /\ \A j \in 1..Len(log) :
                    log[j].ev \in {"load", "add_documents"} => j < k
    /\ (/\ pc = "idle"
        /\ EventCount("init_vectordb") = 1
        /\ ~(result.kind = "error" /\ result.error_code = "VECTORDB_ERROR")) =>
            EventCount("persist") = 1
    /\ (pc = "idle" /\ PersistRaised) =>
            /\ result.kind = "error"
            /\ result.cls = "DatabaseError"
            /\ result.error_code = "DB_OPERATION_ERROR"

C6_Witness ==
    /\ Done
    /\ PersistRaised
    /\ Len(processed_files) = 2
    /\ vectordb # store0
    /\ result.kind = "error"
    /\ result.error_code = "DB_OPERATION_ERROR"

\* C7 as stated: the doc_id values stamped in one call are pairwise distinct.
C7_DocIdsUnique ==
    \A i, j \in 1..Len(stamped) : i # j => stamped[i] # stamped[j]

\* C8 as stated: the id of a stored record is its doc_id, and ingesting a
\* file a second time, with the same outcome, leaves the set of ids in the
\* store as the first ingestion left it.
C8_ReingestKeepsIds ==
    (/\ Done
     /\ calls >= 2
     /\ prev.result.kind = "ok"
     /\ result.kind = "ok"
     /\ result = prev.result) =>
        /\ { r.id : r \in vectordb } = prev.ids
        /\ \A r \in vectordb : r.id = r.doc_id

\* C9 as stated: callers that find the chain uninitialized at the same time
\* construct one chain instance between them, and every caller is handed
\* that instance.
C9_SingleFlight ==
    /\ constructions <= 1
    /\ \A t \in Callers : tlocal[t] # None => tlocal[t] = 1

\* C10 as stated: once the chain is constructed, qa_chain stays that
\* instance and no chain is constructed again.
C10_ReadyIsFinal ==
    [][qa_chain # None => qa_chain' = qa_chain /\ constructions' = constructions]_vars

\* a caller is past the probe of a construction it is still running
PastProbe(t) == tpc[t] \in {"init_llm", "retriever", "build", "return", "invoke"}

\* C11 as stated: a construction whose probe succeeded and found no record
\* does not go on: it fails with a storage error and builds no chain; a
\* warning is logged only when the probe itself raised.
C11_EmptyStoreStopsConstruction ==
    \A t \in Callers :
        /\ tobs[t].probe = "empty" => ~PastProbe(t)
        /\ tobs[t].warned => tobs[t].probe = "raised"

\* a question of no character other than the blank
Blank(q) == \A i \in 1..Len(q) : q[i] = " "

\* C12: a caller whose question is empty or blank is answered
\* ValidationError VALIDATION_ERROR without entering get_rag_chain and is
\* handed no chain; the step that begins a call changes neither qa_chain nor
\* the number of chains built, and only a caller with a question that is
\* not blank goes on to get_rag_chain.
C12_BlankQuestionRejected ==
    /\ [](\A t \in Callers :
            (tobs[t].asked /\ Blank(tobs[t].question)) =>
                /\ tpc[t] = "idle"
                /\ tlocal[t] = None
                /\ tres[t].kind = "error"
                /\ tres[t].cls = "ValidationError"
                /\ tres[t].error_code = "VALIDATION_ERROR")
    /\ [][asks' = asks + 1 =>
            /\ qa_chain' = qa_chain
            /\ constructions' = constructions
            /\ \A t \in Callers :
                  tpc'[t] # tpc[t] =>
                      /\ ~Blank(tobs'[t].question)
                      /\ tpc'[t] = "check"]_vars

C12_Witness ==
    \E t \in Callers :
        /\ tobs[t].asked
        /\ tobs[t].question = <<" ">>
        /\ tpc[t] = "idle"
        /\ tres[t].kind = "error"
        /\ tres[t].error_code = "VALIDATION_ERROR"
        /\ qa_chain # None

\* C13 as stated: an error of the application's taxonomy raised inside
\* ingest_pdfs reaches the caller as it was raised: the error the call ends
\* with is never a second error wrapped around a first one of the taxonomy.
C13_TypedErrorNotRewrapped ==
    (pc = "idle" /\ result.kind = "error") => result.original_error.kind # "error"

\* the ids of the records the last request found in the store
IdsBefore == { r.id : r \in req.before }

\* C15: delete_all_docs never calls delete on a store it found empty, and
\* then answers count 0; when it answers a count, the count is the number
\* of records it found, delete was called exactly when there were any, and
\* no record is left.
C15_DeleteAllCounts ==
    req.op = "delete_all_docs" =>
        /\ req.before = {} => req.store_calls \in { <<>>, <<"get">> }
        /\ reply.kind = "ok" =>
              /\ reply.value.count = Cardinality(req.before)
              /\ vectordb = {}
              /\ req.store_calls =
                    IF req.before = {} THEN <<"get">> ELSE <<"get", "delete">>

C15_Witness ==
    /\ req.op = "delete_all_docs"
    /\ req.before = {}
    /\ req.store_calls = <<"get">>
    /\ reply.kind = "ok"
    /\ reply.value.count = 0

\* the ids of the last request that the store did not hold, in their order
AbsentIds == SelectSeq(req.ids, LAMBDA i : i \notin IdsBefore)

\* C16: a delete_docs request naming an id the store does not hold deletes
\* nothing, the ids it names that the store holds included, and once the
\* store has been read it is answered DOCUMENT_NOT_FOUND with exactly the
\* absent ids; a request whose ids are all held and that is answered with
\* success has removed the records of those ids and no other.
C16_DeleteDocsAllOrNothing ==
    (req.op = "delete_docs" /\ req.ids # <<>>) =>
        /\ AbsentIds # <<>> =>
              /\ vectordb = req.before
              /\ "delete" \notin Range(req.store_calls)
              /\ reply.kind = "error"
              /\ (req.store_calls = <<"get">> /\ reply.original_error = NoCause) =>
                    /\ reply.error_code = "DOCUMENT_NOT_FOUND"
                    /\ reply.details.invalid_ids = AbsentIds
        /\ reply.kind = "ok" =>
              /\ AbsentIds = <<>>
              /\ reply.value.deleted_ids = req.ids
              /\ vectordb = { x \in req.before : x.id \notin Range(req.ids) }
        /\ (reply.kind = "error" /\ reply.error_code = "DOCUMENT_NOT_FOUND") =>
              AbsentIds # <<>>

C16_Witness ==
    /\ req.op = "delete_docs"
    /\ Len(req.ids) = 2
    /\ req.ids[1] \in IdsBefore
    /\ req.ids[2] \notin IdsBefore
    /\ reply.kind = "error"
    /\ reply.error_code = "DOCUMENT_NOT_FOUND"
    /\ reply.details.invalid_ids = <<req.ids[2]>>
    /\ vectordb = req.before

\* the error code the claim gives for a builtin exception class
TranslationTable ==
    [ FileNotFoundError |-> "FILE_NOT_FOUND", PermissionError |-> "FILE_UPLOAD_ERROR",
      ValueError |-> "VALIDATION_ERROR", UnicodeDecodeError |-> "VALIDATION_ERROR",
      ConnectionError |-> "DB_CONNECTION_ERROR",
      ConnectionRefusedError |-> "DB_CONNECTION_ERROR",
      IsADirectoryError |-> "UNKNOWN_ERROR", OSError |-> "UNKNOWN_ERROR",
      KeyError |-> "UNKNOWN_ERROR", TypeError |-> "UNKNOWN_ERROR",
      Exception |-> "UNKNOWN_ERROR" ]

\* C14 as stated: a call of a function under handle_error or
\* handle_async_error never ends with a raw failure; a raw failure of the
\* function arrives as the error of the taxonomy the table gives for it,
\* and a return or an error of the taxonomy arrives as it is.
C14_TranslationTotal ==
    applied.fn \in {"handle_error", "handle_async_error"} =>
        /\ applied.out.kind # "raw"
        /\ applied.arg.kind = "raw" =>
              /\ applied.out.kind = "error"
              /\ applied.out.error_code = TranslationTable[applied.arg.cls]
        /\ applied.arg.kind # "raw" => applied.out = applied.arg

\* the codes the claim names as the client's fault, and as not
ClientFaultCodes ==
    { "VALIDATION_ERROR", "FILE_NOT_FOUND", "DOCUMENT_NOT_FOUND",
      "INVALID_FILE_FORMAT" }

ServerFaultCodes ==
    { "LLM_ERROR", "MODEL_INITIALIZATION_ERROR", "DB_CONNECTION_ERROR",
      "DB_OPERATION_ERROR", "VECTORDB_ERROR", "UNKNOWN_ERROR",
      "INTERNAL_SERVER_ERROR" }

\* C17 as stated: an error whose code is the client's fault is answered
\* with a status of 400 to 499, an error of any other code the claim names
\* with a status of 500 to 599.
C17_StatusClassByCode ==
    applied.fn = "exception_handler" =>
        /\ applied.out.error_code \in ClientFaultCodes =>
              applied.out.status_code \in 400..499
        /\ applied.out.error_code \in ServerFaultCodes =>
              applied.out.status_code \in 500..599

\* C18: validate_file_size returns True exactly when the size is at most
\* max_size_mb times 1048576 bytes, the limit itself accepted, and otherwise
\* raises ValidationError FILE_SIZE_EXCEEDED; with the default limit, 52428800
\* bytes pass and 52428801 do not.
C18_SizeLimitInclusive ==
    applied.fn = "validate_file_size" =>
        LET a == applied.arg
        IN  /\ applied.out = Returns(TRUE) <=> a.file_size <= a.max_size_mb * 1048576
            /\ applied.out # Returns(TRUE) =>
                  /\ applied.out.kind = "error"
                  /\ applied.out.cls = "ValidationError"
                  /\ applied.out.error_code = "FILE_SIZE_EXCEEDED"
            /\ (a.max_size_mb = 50 /\ a.file_size = 52428800) =>
                  applied.out = Returns(TRUE)
            /\ (a.max_size_mb = 50 /\ a.file_size = 52428801) =>
                  applied.out.kind = "error"

C18_Witness ==
    /\ applied.fn = "validate_file_size"
    /\ applied.arg = [file_size |-> 52428800, max_size_mb |-> 50]
    /\ applied.out = Returns(TRUE)

\* the error codes a failure of each step of construction is raised with
StepFailureCodes ==
    [ get_vectordb |-> {"EMBEDDING_ERROR", "DB_CONNECTION_ERROR", "VECTORDB_ERROR"},
      init_llm |-> {"LLM_ERROR"},
      retriever |-> {"RETRIEVAL_ERROR"},
      build |-> {"CHAIN_ERROR"} ]

\* C19: a caller is never at the return of get_rag_chain with qa_chain None,
\* and the chain it is handed is one that was built; a step of construction
\* that fails ends the call with the typed error of that step and changes
\* neither qa_chain nor the number of chains built, so a qa_chain that was
\* None stays None; and a call that finds qa_chain None starts construction.
C19_FailedConstructionNotCached ==
    /\ [](\A t \in Callers :
            /\ tpc[t] = "return" => qa_chain # None
            /\ tpc[t] = "invoke" => tlocal[t] \in 1..constructions)
    /\ [][\A t \in Callers :
            /\ (tpc[t] \in DOMAIN StepFailureCodes /\ tpc'[t] = "idle") =>
                  /\ tres'[t].kind = "error"
                  /\ tres'[t].cls \in {"ModelError", "DatabaseError"}
                  /\ tres'[t].error_code \in StepFailureCodes[tpc[t]]
                  /\ tlocal'[t] = None
                  /\ qa_chain' = qa_chain
                  /\ constructions' = constructions
            /\ (tpc[t] = "check" /\ tpc'[t] # "check" /\ qa_chain = None) =>
                  tpc'[t] = "get_vectordb"]_vars

C19_Witness ==
    \E t, u \in Callers :
        /\ tpc[t] = "idle"
        /\ tres[t].kind = "error"
        /\ tres[t].error_code = "LLM_ERROR"
        /\ qa_chain = None
        /\ constructions = 0
        /\ tpc[u] = "get_vectordb"
        /\ asks >= 2

\* C20: no step of an ingest_pdfs call, whether the call returns or raises,
\* changes qa_chain or builds a chain: a chain that was READY when the call
\* began is the same instance when it ends.
C20_IngestLeavesChain ==
    [][qa_chain' = qa_chain /\ constructions' = constructions]_vars

C20_Witness ==
    /\ Done
    /\ result.kind = "ok"
    /\ vectordb # store0
    /\ qa_chain = 1

\* the filenames of the paths of file_paths at the indices of S, in order
NamesAt(S) ==
    LET sel == SelectSeq([k \in 1..Len(file_paths) |-> k], LAMBDA k : k \in S)
    IN  [j \in 1..Len(sel) |-> basename(file_paths[sel[j]])]

\* the per-file loop of the call has ended
LoopEnded == pc \in {"persist", "finish"} \/ LoopDone

\* C21: once the per-file loop has ended, the indices of file_paths split
\* into those of the success list and those of the failure list: each list
\* holds the filenames of its share in input order, so every file is
\* entered once, in one list; the lengths of the two lists add up to the
\* number of paths; and every success entry counts at least one chunk.
C21_EveryFileInOneList ==
    LoopEnded =>
        /\ Len(processed_files) + Len(failed_files) = Len(file_paths)
        /\ \E S \in SUBSET (1..Len(file_paths)) :
              /\ [k \in 1..Len(processed_files) |-> processed_files[k].file]
                    = NamesAt(S)
              /\ [k \in 1..Len(failed_files) |-> failed_files[k].file]
                    = NamesAt((1..Len(file_paths)) \ S)
        /\ \A k \in 1..Len(processed_files) : processed_files[k].chunks >= 1

C21_Witness ==
    /\ pc = "persist"
    /\ Len(file_paths) = 2
    /\ basename(file_paths[1]) = basename(file_paths[2])
    /\ Len(processed_files) = 1
    /\ Len(failed_files) = 1
    /\ failed_files[1].error = "Failed to add to vector database"

====
